---- MODULE Spec2Model ----
(***************************************************************************)
(* Karabo bridge client (include/kb_client.hpp).                           *)
(*                                                                         *)
(* Spec      : one Client; calls of next(), showMsg() and showNext(), each *)
(*             a send of the request, the receive of a multipart reply     *)
(*             frame by frame, and the walk over the (header, data) pairs. *)
(* SpecArray : Array::size() and Array::as<T>() on an Array built from an  *)
(*             array header the way Client::next() builds it.              *)
(* SpecVisitor : parseMsg on one message: msgpack::parse walks a value and *)
(*             calls the karabo_visitor, one callback per step.            *)
(***************************************************************************)
EXTENDS Integers, Sequences, FiniteSets, TLC

VARIABLES
    pc,             \* position of the running call
    op,             \* the member function being run: next, showMsg, showNext
    pending,        \* socket_: requests sent whose reply is not yet complete
    request,        \* socket_: the bytes of the last request sent
    more,           \* receiveMultipartMsg: ZMQ_RCVMORE of the last frame
    mpmsg,          \* next / showMsg: the frames received, in order
    it,             \* next: number of frames the iterator has passed
    kbdt,           \* next: the kb_data being built
    source,         \* next: source of the last header processed
    is_initialized, \* next: a msgpack header has been seen
    data_pkg,       \* next: source -> kb_data grouped so far
    outcome,        \* how the last call ended: none, returned, threw
    err,            \* the exception the last call raised, or "none"
    result,         \* the map<string, kb_data> the caller received from next()
    text,           \* the string the caller received from showMsg / showNext
    reply,          \* history: the frames the server sent for the last request
    prev,           \* history: how the call before the last one ended
    ahdr,           \* an array header (shape, dtype, path, source)
    arr,            \* the Array next() builds from ahdr (ptr_, shape_, dtype_)
    frame,          \* the bytes of the data frame arr.ptr_ points to
    apc,            \* position in the Array scenario
    T,              \* the type asked of Array::as<T>()
    aout,           \* what Array::as<T>() did
    m_s,            \* karabo_visitor: the output string (data_str of parseMsg)
    tracker_,       \* karabo_visitor: the stack of map levels, top last
    level_,         \* karabo_visitor: the level counter (uint16_t)
    is_key_,        \* karabo_visitor: a map key is being visited
    m_stack,        \* msgpack::parse: the open containers, innermost last
    ppc,            \* msgpack::parse: what the parser does next
    nodes,          \* the values of the message announced so far
    visited         \* history: the visitor callback called last

vars == << pc, op, pending, request, more, mpmsg, it, kbdt, source,
           is_initialized, data_pkg, outcome, err, result, text,
           reply, prev, ahdr, arr, frame, apc, T, aout,
           m_s, tracker_, level_, is_key_, m_stack, ppc, nodes, visited >>

clientVars == << pc, op, pending, request, more, mpmsg, it, kbdt, source,
                 is_initialized, data_pkg, outcome, err, result, text,
                 reply, prev >>

arrayVars == << ahdr, arr, frame, apc, T, aout >>

visitorVars == << m_s, tracker_, level_, is_key_, m_stack, ppc, nodes,
                  visited >>

-----------------------------------------------------------------------------
(* Bounds *)

\* longest reply, in frames
MaxFrames == 5

\* longest shape vector
MaxShapeLen == 3

\* largest dimension: the largest unsigned int, scaled down
UIntMax == 3

\* the largest std::size_t, scaled down with UIntMax (unsigned int is the
\* narrower type)
SizeTMax == 15

\* most values (containers, keys, scalars) in one parsed message
MaxNodes == 5

-----------------------------------------------------------------------------
(* std::map helpers *)

EmptyMap == [k \in {} |-> {}]

\* std::map::insert: an existing key keeps its value
MapInsert(m, k, v) ==
    IF k \in DOMAIN m THEN m
    ELSE [x \in DOMAIN m \cup {k} |-> IF x = k THEN v ELSE m[x]]

-----------------------------------------------------------------------------
(* Frames of a reply.  A frame either decodes to a msgpack map (obj) or is *)
(* raw bytes that do not (the frame without bytes included).               *)

MapFrame(o) == [kind |-> "map", obj |-> o]

RawFrame(b) == [kind |-> "raw", bytes |-> b]

HeaderFrames ==
    { MapFrame([source |-> s, content |-> "msgpack"]) : s \in {"A", "B"} }
    \cup
    { MapFrame([source |-> s, content |-> "array", path |-> "x",
                shape |-> <<2, 2>>, dtype |-> "uint16"]) : s \in {"A", "B"} }
    \cup
    { MapFrame([source |-> "A", content |-> "array", path |-> "x"]),
      MapFrame([source |-> "A", content |-> "ImageData", path |-> "img",
                shape |-> <<2, 2>>, dtype |-> "uint16"]),
      MapFrame([source |-> "A", content |-> "ImageData"]),
      MapFrame([source |-> "A", content |-> "hash"]),
      MapFrame([content |-> "msgpack"]),
      MapFrame([source |-> "A"]),
      RawFrame(<<1>>),
      RawFrame(<<>>) }

DataFrames ==
    { MapFrame([k1 |-> 1]),
      MapFrame([k2 |-> 2, metadata |-> [m1 |-> 3]]),
      RawFrame(<<1, 0, 2, 0, 3, 0, 4, 0>>) }

-----------------------------------------------------------------------------
(* kb_data *)

\* kb_data(): no frames, no handle, no entries.  handle_ is the position of
\* the data frame whose decode handle is held (0: none); a moved-from kb_data
\* is in this state too.
kb_data == [mpmsg_ |-> <<>>, handle_ |-> 0,
            msgpack_data |-> EmptyMap, array |-> EmptyMap]

\* kb_data::append_msg
append_msg(kb, i) == [kb EXCEPT !.mpmsg_ = Append(@, i)]

\* zmq::message_t holds a message of at most 33 bytes (max_vsm_size of a
\* 64-bit libzmq 4) inside the message object itself; a longer one is a
\* separate buffer the object refers to.  Every map frame of HeaderFrames and
\* DataFrames encodes to fewer than 33 bytes.
StoredInline(f) == f.kind = "map" \/ Len(f.bytes) <= 33

\* what the pointer it->data() of line 472 refers to once line 479 has moved
\* the frame at position p from the deque mpmsg into kb.mpmsg_: the buffer of
\* the retained frame when the move hands the buffer over, the moved-from
\* deque element (destroyed when next() returns) when the bytes were inline
data_after_move(kb, p, f) ==
    IF StoredInline(f) \/ \A n \in 1..Len(kb.mpmsg_) : kb.mpmsg_[n] # p
    THEN [holder |-> "mpmsg", pos |-> p]
    ELSE [holder |-> "kb_data", pos |-> p]

\* kb_data::append_handle
append_handle(kb, i) == [kb EXCEPT !.handle_ = i]

\* Object: the decoded value and the handle (data frame position) it lives in
Object(v, i) == [value |-> v, handle |-> i]


\* mutant of insert_fields: the "metadata" key is left out of the fields
insert_fields_hoisting(kb, obj, i) ==
    [kb EXCEPT !.msgpack_data =
        [k \in DOMAIN @ \cup (DOMAIN obj \ {"metadata"}) |->
            IF k \in DOMAIN @ THEN @[k] ELSE Object(obj[k], i)]]

\* the loop at lines 456-457: every key of the decoded data mapping is
\* inserted into msgpack_data
insert_fields(kb, obj, i) ==
    [kb EXCEPT !.msgpack_data =
        [k \in DOMAIN @ \cup DOMAIN obj |->
            IF k \in DOMAIN @ THEN @[k] ELSE Object(obj[k], i)]]

-----------------------------------------------------------------------------
(* Array *)

\* std::string::find(sub) != npos
Find(s, sub) ==
    \E i \in 1..(Len(s) - Len(sub) + 1) : SubSeq(s, i, i + Len(sub) - 1) = sub

\* line 468: convert the python type to the corresponding c++ type
NormalizeDtype(dtype) ==
    IF Find(dtype, "int") THEN dtype \o "_t" ELSE dtype

\* Array(ptr, shape, dtype); ptr is the position of the frame pointed into
Array(ptr, shape, dtype) == [ptr_ |-> ptr, shape_ |-> shape, dtype_ |-> dtype]

-----------------------------------------------------------------------------
(* Client::next, one (header, data) pair: the body of the while loop.      *)
(* The step yields the locals after the pair, or after the statement that  *)
(* threw (err # "none").                                                   *)

Locals(e, pkg, kb, src, init, i) ==
    [err |-> e, data_pkg |-> pkg, kbdt |-> kb, source |-> src,
     is_initialized |-> init, it |-> i]

\* mutant of PairTail: a header whose source differs from the one seen
\* before is refused
PairTail_SourceChecked(h, pkg, kb, src, init, i) ==
    IF "source" \notin DOMAIN h
    THEN Locals("out_of_range", pkg, kb, src, init, i)
    ELSE IF src # "" /\ h.source # src
    THEN Locals("inconsistent_source", pkg, kb, src, init, i)
    ELSE Locals("none", pkg, append_msg(kb, i + 1), h.source, init, i + 1)

\* mutant of PairTail: a header without "source" keeps the source seen before
PairTail_SourceDefaulted(h, pkg, kb, src, init, i) ==
    IF "source" \notin DOMAIN h
    THEN Locals("none", pkg, append_msg(kb, i + 1), src, init, i + 1)
    ELSE Locals("none", pkg, append_msg(kb, i + 1), h.source, init, i + 1)

\* lines 477-480: source = header.at("source"); keep the data frame; advance
PairTail(h, pkg, kb, src, init, i) ==
    IF "source" \notin DOMAIN h
    THEN Locals("out_of_range", pkg, kb, src, init, i)
    ELSE Locals("none", pkg, append_msg(kb, i + 1), h.source, init, i + 1)

\* lines 443-459: content == "msgpack"
MsgpackPair(h, df, pkg, kb, src, init, i) ==
    LET pkg1 == IF init THEN MapInsert(pkg, src, kb) ELSE pkg
        kb0  == IF init THEN kb_data ELSE kb
        kb1  == append_msg(kb0, i + 1)
    IN  IF df.kind # "map"
        THEN Locals("type_error", pkg1, kb1, src, TRUE, i + 1)
        ELSE PairTail(h, pkg1,
                      append_handle(insert_fields(kb1, df.obj, i + 2), i + 2),
                      src, TRUE, i + 1)

\* lines 461-472: content == "array" || content == "ImageData"
ArrayPair(h, pkg, kb, src, init, i) ==
    LET kb1 == append_msg(kb, i + 1)
    IN  IF {"shape", "dtype", "path"} \subseteq DOMAIN h
        THEN PairTail(h, pkg,
                 [kb1 EXCEPT !.array =
                     MapInsert(@, h.path,
                               Array(i + 2, h.shape, NormalizeDtype(h.dtype)))],
                 src, init, i + 1)
        ELSE Locals("out_of_range", pkg, kb1, src, init, i + 1)

\* lines 443-475, the dispatch on content
Dispatch(h, df, pkg, kb, src, init, i) ==
    IF h.content = "msgpack"
    THEN MsgpackPair(h, df, pkg, kb, src, init, i)
    ELSE IF h.content \in {"array", "ImageData"}
    THEN ArrayPair(h, pkg, kb, src, init, i)
    ELSE Locals("unknown_content", pkg, kb, src, init, i)

\* lines 435-438 on a frame that holds no msgpack mapping: unpack of an empty
\* frame throws insufficient_bytes, as<MsgObjectMap> of another value throws
\* type_error
HeaderFailure(hf) ==
    IF hf.bytes = <<>> THEN "insufficient_bytes" ELSE "type_error"

\* mutant of ProcessPair: ImageData is refused as unsupported
ProcessPair_ImageDataRefused(hf, df, pkg, kb, src, init, i) ==
    IF hf.kind # "map"
    THEN Locals(HeaderFailure(hf), pkg, kb, src, init, i)
    ELSE IF "content" \notin DOMAIN hf.obj
    THEN Locals("out_of_range", pkg, kb, src, init, i)
    ELSE IF hf.obj.content = "ImageData"
    THEN Locals("unsupported", pkg, kb, src, init, i)
    ELSE Dispatch(hf.obj, df, pkg, kb, src, init, i)

\* mutant of ProcessPair: a header of unknown content is skipped with its
\* data frame
ProcessPair_UnknownSkipped(hf, df, pkg, kb, src, init, i) ==
    IF hf.kind # "map"
    THEN Locals(HeaderFailure(hf), pkg, kb, src, init, i)
    ELSE IF "content" \notin DOMAIN hf.obj
    THEN Locals("out_of_range", pkg, kb, src, init, i)
    ELSE IF hf.obj.content \notin {"msgpack", "array", "ImageData"}
    THEN Locals("none", pkg, kb, src, init, i + 2)
    ELSE Dispatch(hf.obj, df, pkg, kb, src, init, i)

\* lines 434-481
ProcessPair(hf, df, pkg, kb, src, init, i) ==
    IF hf.kind # "map"
    THEN Locals(HeaderFailure(hf), pkg, kb, src, init, i)
    ELSE LET h == hf.obj
         IN  IF "content" \notin DOMAIN h
             THEN Locals("out_of_range", pkg, kb, src, init, i)
             ELSE Dispatch(h, df, pkg, kb, src, init, i)

-----------------------------------------------------------------------------
(* Client *)

\* zmq::message_t request(4)
RequestSize == 4

NoText == [kind |-> "none"]

\* the locals of next() before line 421 and after the frame is left
ResetLocals ==
    /\ mpmsg' = <<>>
    /\ it' = 0
    /\ kbdt' = kb_data
    /\ source' = ""
    /\ is_initialized' = FALSE
    /\ data_pkg' = EmptyMap

\* Client::sendRequest
sendRequest ==
    /\ request' = SubSeq(<<"n", "e", "x", "t">>, 1, RequestSize)
    /\ pending' = pending + 1

\* a call of next(), showMsg() or showNext() starts: each begins with
\* sendRequest() (lines 423, 494; showNext calls next at 505)
Call ==
    /\ pc = "idle"
    /\ \E o \in {"next", "showMsg", "showNext"} : op' = o
    /\ sendRequest
    /\ ResetLocals
    /\ pc' = "recv"
    /\ more' = 0
    /\ outcome' = "none"
    /\ err' = "none"
    /\ result' = EmptyMap
    /\ text' = NoText
    /\ reply' = <<>>
    /\ prev' = outcome
    /\ UNCHANGED arrayVars
    /\ UNCHANGED visitorVars

\* mutant of receiveMultipartMsg: the loop is left when ZMQ_RCVMORE is set
\* instead of when it is clear
receiveMultipartMsg_BreakOnMore ==
    /\ pc = "recv"
    /\ \E f \in (IF Len(mpmsg) % 2 = 0 THEN HeaderFrames ELSE DataFrames),
          m \in {0, 1} :
          /\ (m = 1) => Len(mpmsg) + 1 < MaxFrames
          /\ mpmsg' = Append(mpmsg, f)
          /\ reply' = Append(reply, f)
          /\ more' = m
          /\ pending' = IF m = 0 THEN pending - 1 ELSE pending
          /\ pc' = IF m = 1
                   THEN (IF op = "showMsg" THEN "parse" ELSE "check")
                   ELSE "recv"
    /\ UNCHANGED << op, request, it, kbdt, source, is_initialized, data_pkg,
                    outcome, err, result, text, prev >>
    /\ UNCHANGED arrayVars
    /\ UNCHANGED visitorVars

\* mutant of receiveMultipartMsg: the continuation is tested before a frame is
\* received, so the receive can end with no frame
receiveMultipartMsg_TestFirst ==
    /\ pc = "recv"
    /\ \/ /\ Len(mpmsg) = 0
          /\ UNCHANGED << mpmsg, reply, more >>
          /\ pending' = pending - 1
          /\ pc' = IF op = "showMsg" THEN "parse" ELSE "check"
       \/ \E f \in (IF Len(mpmsg) % 2 = 0 THEN HeaderFrames ELSE DataFrames),
             m \in {0, 1} :
             /\ (m = 1) => Len(mpmsg) + 1 < MaxFrames
             /\ mpmsg' = Append(mpmsg, f)
             /\ reply' = Append(reply, f)
             /\ more' = m
             /\ IF m = 0
                THEN /\ pending' = pending - 1
                     /\ pc' = IF op = "showMsg" THEN "parse" ELSE "check"
                ELSE /\ pending' = pending
                     /\ pc' = "recv"
    /\ UNCHANGED << op, request, it, kbdt, source, is_initialized, data_pkg,
                    outcome, err, result, text, prev >>
    /\ UNCHANGED arrayVars
    /\ UNCHANGED visitorVars

\* Client::receiveMultipartMsg, one turn of its loop: recv a frame, keep it,
\* read ZMQ_RCVMORE, leave the loop when it is 0
receiveMultipartMsg ==
    /\ pc = "recv"
    /\ \E f \in (IF Len(mpmsg) % 2 = 0 THEN HeaderFrames ELSE DataFrames),
          m \in {0, 1} :
          /\ (m = 1) => Len(mpmsg) + 1 < MaxFrames
          /\ mpmsg' = Append(mpmsg, f)
          /\ reply' = Append(reply, f)
          /\ more' = m
          /\ IF m = 0
             THEN /\ pending' = pending - 1
                  /\ pc' = IF op = "showMsg" THEN "parse" ELSE "check"
             ELSE /\ pending' = pending
                  /\ pc' = "recv"
    /\ UNCHANGED << op, request, it, kbdt, source, is_initialized, data_pkg,
                    outcome, err, result, text, prev >>
    /\ UNCHANGED arrayVars
    /\ UNCHANGED visitorVars

\* mutant of NextCheck: a reply with an odd number of frames is walked too
NextCheck_OddAccepted ==
    /\ pc = "check"
    /\ IF Len(mpmsg) = 0
       THEN /\ pc' = IF op = "showNext" THEN "format" ELSE "idle"
            /\ outcome' = IF op = "showNext" THEN outcome ELSE "returned"
            /\ result' = data_pkg
            /\ err' = err
            /\ ResetLocals
       ELSE /\ pc' = "loop"
            /\ kbdt' = kb_data
            /\ source' = ""
            /\ is_initialized' = FALSE
            /\ it' = 0
            /\ UNCHANGED << outcome, result, err, mpmsg, data_pkg >>
    /\ UNCHANGED << op, pending, request, more, text, reply, prev >>
    /\ UNCHANGED arrayVars
    /\ UNCHANGED visitorVars

\* next(), lines 425-433: the empty reply, the odd reply, the loop's locals
NextCheck ==
    /\ pc = "check"
    /\ IF Len(mpmsg) = 0
       THEN /\ pc' = IF op = "showNext" THEN "format" ELSE "idle"
            /\ outcome' = IF op = "showNext" THEN outcome ELSE "returned"
            /\ result' = data_pkg
            /\ err' = err
            /\ ResetLocals
       ELSE IF Len(mpmsg) % 2 = 1
       THEN /\ pc' = "unwind"
            /\ err' = "pairs_expected"
            /\ UNCHANGED << outcome, result, mpmsg, it, kbdt, source,
                            is_initialized, data_pkg >>
       ELSE /\ pc' = "loop"
            /\ kbdt' = kb_data
            /\ source' = ""
            /\ is_initialized' = FALSE
            /\ it' = 0
            /\ UNCHANGED << outcome, result, err, mpmsg, data_pkg >>
    /\ UNCHANGED << op, pending, request, more, text, reply, prev >>
    /\ UNCHANGED arrayVars
    /\ UNCHANGED visitorVars

\* next(), lines 434-481: one turn of the while loop
NextPair ==
    /\ pc = "loop"
    /\ it < Len(mpmsg)
    /\ LET r == ProcessPair(mpmsg[it + 1], mpmsg[it + 2], data_pkg, kbdt,
                            source, is_initialized, it)
       IN  /\ data_pkg' = r.data_pkg
           /\ kbdt' = r.kbdt
           /\ source' = r.source
           /\ is_initialized' = r.is_initialized
           /\ it' = r.it
           /\ err' = r.err
           /\ pc' = IF r.err = "none" THEN "loop" ELSE "unwind"
    /\ UNCHANGED << op, pending, request, more, mpmsg, outcome, result, text,
                    reply, prev >>
    /\ UNCHANGED arrayVars
    /\ UNCHANGED visitorVars

\* next(), lines 483-485: the last kb_data is grouped and data_pkg returned
NextReturn ==
    /\ pc = "loop"
    /\ it = Len(mpmsg)
    /\ result' = MapInsert(data_pkg, source, kbdt)
    /\ pc' = IF op = "showNext" THEN "format" ELSE "idle"
    /\ outcome' = IF op = "showNext" THEN outcome ELSE "returned"
    /\ ResetLocals
    /\ UNCHANGED << op, pending, request, more, err, text, reply, prev >>
    /\ UNCHANGED arrayVars
    /\ UNCHANGED visitorVars

\* mutant of Unwind: what was grouped before the exception reaches the caller
Unwind_Partial ==
    /\ pc = "unwind"
    /\ pc' = "idle"
    /\ outcome' = "threw"
    /\ result' = data_pkg
    /\ ResetLocals
    /\ UNCHANGED << op, pending, request, more, err, text, reply, prev >>
    /\ UNCHANGED arrayVars
    /\ UNCHANGED visitorVars

\* an exception leaves next() (no handler in next, showNext or showMsg):
\* the locals are destroyed and the caller receives the exception only
Unwind ==
    /\ pc = "unwind"
    /\ pc' = "idle"
    /\ outcome' = "threw"
    /\ result' = EmptyMap
    /\ ResetLocals
    /\ UNCHANGED << op, pending, request, more, err, text, reply, prev >>
    /\ UNCHANGED arrayVars
    /\ UNCHANGED visitorVars

\* parseMultipartMsg(mpmsg, boundary = true): per frame, the separator and
\* the frame's rendering, in order.  The rendering of frame i (parseMsg) is
\* named by i here; SpecVisitor has it callback by callback.
parseMultipartMsg(msgs) ==
    [kind |-> "showMsg",
     parts |-> [i \in 1..Len(msgs) |-> [separator |-> TRUE, msg |-> i]]]

\* showMsg(), line 496
ShowMsgParse ==
    /\ pc = "parse"
    /\ text' = parseMultipartMsg(mpmsg)
    /\ outcome' = "returned"
    /\ pc' = "idle"
    /\ ResetLocals
    /\ UNCHANGED << op, pending, request, more, err, result, reply, prev >>
    /\ UNCHANGED arrayVars
    /\ UNCHANGED visitorVars

\* showNext(), lines 507-555: per source of data_pkg, the frames whose sizes
\* kb_data::size() adds up, the msgpack paths and the arrays with dtype and
\* shape
ShowNextFormat ==
    /\ pc = "format"
    /\ text' = [kind |-> "showNext",
                sources |-> [s \in DOMAIN result |->
                    [frames |-> result[s].mpmsg_,
                     paths |-> DOMAIN result[s].msgpack_data,
                     arrays |-> [p \in DOMAIN result[s].array |->
                         [dtype |-> result[s].array[p].dtype_,
                          shape |-> result[s].array[p].shape_]]]]]
    /\ outcome' = "returned"
    /\ result' = EmptyMap
    /\ pc' = "idle"
    /\ UNCHANGED << op, pending, request, more, mpmsg, it, kbdt, source,
                    is_initialized, data_pkg, err, reply, prev >>
    /\ UNCHANGED arrayVars
    /\ UNCHANGED visitorVars

\* no parseMsg is running: no visitor, no parser
VisitorIdle ==
    /\ m_s = ""
    /\ tracker_ = <<>>
    /\ level_ = 0
    /\ is_key_ = FALSE
    /\ m_stack = <<>>
    /\ ppc = "off"
    /\ nodes = 0
    /\ visited = "none"

ArrayIdle ==
    /\ ahdr = [source |-> "", content |-> "", path |-> "",
               shape |-> <<>>, dtype |-> ""]
    /\ arr = Array(0, <<>>, "")
    /\ frame = <<>>
    /\ apc = "off"
    /\ T = ""
    /\ aout = [kind |-> "none"]

\* Client(): a REQ socket with nothing sent
ClientIdle ==
    /\ pc = "idle"
    /\ op = "none"
    /\ pending = 0
    /\ request = <<>>
    /\ more = 0
    /\ mpmsg = <<>>
    /\ it = 0
    /\ kbdt = kb_data
    /\ source = ""
    /\ is_initialized = FALSE
    /\ data_pkg = EmptyMap
    /\ outcome = "none"
    /\ err = "none"
    /\ result = EmptyMap
    /\ text = NoText
    /\ reply = <<>>
    /\ prev = "none"

Init == ClientIdle /\ ArrayIdle /\ VisitorIdle

Next ==
    \/ Call
    \/ receiveMultipartMsg
    \/ NextCheck
    \/ NextPair
    \/ NextReturn
    \/ Unwind
    \/ ShowMsgParse
    \/ ShowNextFormat

Spec == Init /\ [][Next]_vars

-----------------------------------------------------------------------------
(* Vocabulary of the properties *)

\* next() has returned its map (to the caller, or to showNext at line 505)
NextReturned ==
    \/ pc = "idle" /\ op = "next" /\ outcome = "returned"
    \/ pc = "format"

\* an exception has left next()
NextThrew ==
    pc = "idle" /\ op \in {"next", "showNext"} /\ outcome = "threw"

NextEnded == NextReturned \/ NextThrew

Pairs == Len(reply) \div 2

Hdr(j) == reply[2 * j - 1]

Dat(j) == reply[2 * j]

HasContent(f, cs) ==
    f.kind = "map" /\ "content" \in DOMAIN f.obj /\ f.obj.content \in cs

HasSource(f) == f.kind = "map" /\ "source" \in DOMAIN f.obj

\* a pair the walk passes without raising
WellFormedPair(j) ==
    /\ HasSource(Hdr(j))
    /\ \/ HasContent(Hdr(j), {"msgpack"}) /\ Dat(j).kind = "map"
       \/ /\ HasContent(Hdr(j), {"array", "ImageData"})
          /\ {"shape", "dtype", "path"} \subseteq DOMAIN Hdr(j).obj

EvenReply == Len(reply) >= 2 /\ Len(reply) % 2 = 0

WellFormedReply == EvenReply /\ \A j \in 1..Pairs : WellFormedPair(j)

\* the header of the pair the walk is in (or has just passed the header of)
CurrentHeader == mpmsg[2 * (it \div 2) + 1]

-----------------------------------------------------------------------------
(* C1 *)

\* C1 (as claimed): a reply with an ImageData header makes next() fail with
\* the Unsupported protocol error.
C1_ImageDataUnsupported ==
    (NextEnded /\ EvenReply /\ \E j \in 1..Pairs : HasContent(Hdr(j), {"ImageData"}))
        => (NextThrew /\ err = "unsupported")

\* C1 (amended): an ImageData header is handled exactly like an array header.
\* next() never raises Unsupported; once the pair of an ImageData header has
\* been passed the header carried shape, dtype, path and source, its frames
\* are retained and an Array built from a header of that path sits at its
\* path in the kb_data being built; when next() fails in the pair of an
\* ImageData header it fails with out_of_range on one of those fields.
C1_ImageDataAsArray ==
    /\ err # "unsupported"
    /\ (pc = "loop" /\ it >= 2 /\ HasContent(mpmsg[it - 1], {"ImageData"})) =>
          LET h == mpmsg[it - 1].obj
          IN  /\ {"shape", "dtype", "path", "source"} \subseteq DOMAIN h
              /\ source = h.source
              /\ h.path \in DOMAIN kbdt.array
              /\ LET a == kbdt.array[h.path]
                 IN  /\ a.ptr_ \in 2..it
                     /\ HasContent(mpmsg[a.ptr_ - 1], {"array", "ImageData"})
                     /\ mpmsg[a.ptr_ - 1].obj.path = h.path
                     /\ a.shape_ = mpmsg[a.ptr_ - 1].obj.shape
                     /\ a.dtype_ = NormalizeDtype(mpmsg[a.ptr_ - 1].obj.dtype)
              /\ Len(kbdt.mpmsg_) >= 2
              /\ SubSeq(kbdt.mpmsg_, Len(kbdt.mpmsg_) - 1, Len(kbdt.mpmsg_))
                     = <<it - 1, it>>
    /\ (pc = "unwind" /\ Len(mpmsg) % 2 = 0
            /\ HasContent(CurrentHeader, {"ImageData"})) =>
          /\ err = "out_of_range"
          /\ ~({"shape", "dtype", "path", "source"}
                   \subseteq DOMAIN CurrentHeader.obj)

C1_Witness ==
    /\ pc = "loop" /\ it = 2
    /\ HasContent(mpmsg[1], {"ImageData"})
    /\ "img" \in DOMAIN kbdt.array

-----------------------------------------------------------------------------
(* C2 *)

\* C2 (as claimed): a reply in which a header's source differs from the first
\* header's makes next() fail with InconsistentSource.
C2_InconsistentSource ==
    (NextEnded /\ WellFormedReply
        /\ \E j \in 1..Pairs : Hdr(j).obj.source # Hdr(1).obj.source)
        => (NextThrew /\ err = "inconsistent_source")

\* the keys next() groups under: the source of the last header, and the
\* source of the header before each msgpack header that follows another one
GroupKeys ==
    {Hdr(Pairs).obj.source} \cup
    { Hdr(j - 1).obj.source :
        j \in { k \in 2..Pairs : /\ HasContent(Hdr(k), {"msgpack"})
                                 /\ \E i \in 1..(k - 1) :
                                        HasContent(Hdr(i), {"msgpack"}) } }

\* C2 (amended): next() makes no source-consistency check and never fails with
\* InconsistentSource; a reply of well-formed pairs whose headers carry
\* different sources is returned as a result keyed by the source of the last
\* header and by the source of the header preceding each msgpack header after
\* the first.
C2_SourcesGrouped ==
    /\ err # "inconsistent_source"
    /\ (NextEnded /\ WellFormedReply
          /\ \E j \in 1..Pairs : Hdr(j).obj.source # Hdr(1).obj.source)
          => (NextReturned /\ DOMAIN result = GroupKeys)

C2_Witness ==
    /\ NextReturned /\ WellFormedReply /\ Pairs = 2
    /\ Hdr(1).obj.source = "A" /\ Hdr(2).obj.source = "B"
    /\ DOMAIN result = {"A", "B"}

-----------------------------------------------------------------------------
(* C3 *)

\* C3 (as claimed): in every result of next(), each field and each array kept
\* under source S was introduced by a header whose source is S.
C3_EntriesShareSource ==
    NextReturned =>
        \A s \in DOMAIN result :
            /\ \A k \in DOMAIN result[s].msgpack_data :
                   reply[result[s].msgpack_data[k].handle - 1].obj.source = s
            /\ \A p \in DOMAIN result[s].array :
                   reply[result[s].array[p].ptr_ - 1].obj.source = s

-----------------------------------------------------------------------------
(* C4 *)

\* the reply is N >= 1 msgpack pairs, all of source s, each with a mapping
SameSourceMsgpack(s) ==
    /\ EvenReply
    /\ \A j \in 1..Pairs :
          /\ HasContent(Hdr(j), {"msgpack"})
          /\ HasSource(Hdr(j)) /\ Hdr(j).obj.source = s
          /\ Dat(j).kind = "map"

\* C4 (as claimed): N msgpack pairs of one source yield a dataset for that
\* source holding the union of the keys of all N data mappings (whether or
\* not "metadata" counts as a field is left open here: that is C5).
C4_UnionOfKeys ==
    \A s \in {"A", "B"} :
        (NextEnded /\ SameSourceMsgpack(s)) =>
            /\ NextReturned
            /\ s \in DOMAIN result
            /\ LET keys == UNION { DOMAIN Dat(j).obj : j \in 1..Pairs }
                   got  == DOMAIN result[s].msgpack_data
               IN  keys \ {"metadata"} \subseteq got /\ got \subseteq keys

-----------------------------------------------------------------------------
(* C5 *)

\* the walk has just passed a msgpack pair
PassedMsgpackPair ==
    pc = "loop" /\ it >= 2 /\ HasContent(mpmsg[it - 1], {"msgpack"})

\* C5 (as claimed): a "metadata" key of the data mapping does not become a
\* field of the dataset; every other top-level key does.
C5_MetadataHoisted ==
    PassedMsgpackPair =>
        /\ "metadata" \notin DOMAIN kbdt.msgpack_data
        /\ DOMAIN mpmsg[it].obj \ {"metadata"} \subseteq DOMAIN kbdt.msgpack_data

\* C5 (amended): a "metadata" key of the data mapping is stored as an
\* ordinary field named "metadata" whose Object holds the nested mapping
\* unhoisted (kb_data has no metadata mapping, and the nested keys become no
\* fields); every other top-level key is a field too.
C5_MetadataIsField ==
    PassedMsgpackPair =>
        LET d == mpmsg[it].obj
        IN  /\ DOMAIN kbdt.msgpack_data = DOMAIN d
            /\ \A k \in DOMAIN d : kbdt.msgpack_data[k] = Object(d[k], it)
            /\ "metadata" \in DOMAIN d =>
                   DOMAIN d.metadata \cap DOMAIN kbdt.msgpack_data = {}

C5_Witness ==
    /\ PassedMsgpackPair
    /\ "metadata" \in DOMAIN mpmsg[it].obj
    /\ "metadata" \in DOMAIN kbdt.msgpack_data
    /\ "k2" \in DOMAIN kbdt.msgpack_data

-----------------------------------------------------------------------------
(* C6 *)

\* C6: a fetch is all-or-nothing.  Once next() has raised, the caller holds
\* no dataset and no text, whatever had been grouped before the failing pair.
C6_AllOrNothing ==
    err # "none" =>
        /\ result = EmptyMap
        /\ text = NoText
        /\ outcome # "returned"
        /\ pc \in {"unwind", "idle"}

\* the exception is raised after an earlier pair was processed and grouped
C6_Witness ==
    /\ pc = "unwind"
    /\ it >= 2
    /\ DOMAIN data_pkg # {}
    /\ result = EmptyMap

-----------------------------------------------------------------------------
(* C7 *)

\* C7: sends and complete multipart receives alternate.  At most one request
\* is unanswered, a request is unanswered exactly while the call is inside
\* receiveMultipartMsg, the request is the 4 bytes "next", the frames are
\* kept in arrival order, and the receive ends exactly at the first frame
\* whose continuation flag is clear.
C7_Alternation ==
    /\ pending \in {0, 1}
    /\ (pending = 1) <=> (pc = "recv")
    /\ op # "none" => request = <<"n", "e", "x", "t">>
    /\ (pc = "recv" /\ Len(reply) >= 1) => more = 1
    /\ (pc # "recv" /\ op # "none") => (more = 0 /\ Len(reply) >= 1)
    /\ pc \in {"recv", "check", "loop", "parse", "unwind"} => mpmsg = reply

\* a receive is under way in the call that follows one ended by an exception
C7_Witness ==
    /\ prev = "threw"
    /\ pc = "recv"
    /\ Len(reply) >= 1
    /\ pending = 1

-----------------------------------------------------------------------------
(* C10 *)

HasUnknownContent(f) ==
    /\ f.kind = "map"
    /\ "content" \in DOMAIN f.obj
    /\ f.obj.content \notin {"msgpack", "array", "ImageData"}

\* C10 (as claimed): a reply with a header of unknown content, at whatever
\* pair position, makes next() fail with the unknown-content error.
C10_UnknownContent ==
    (NextEnded /\ EvenReply /\ \E j \in 1..Pairs : HasUnknownContent(Hdr(j)))
        => (NextThrew /\ err = "unknown_content" /\ result = EmptyMap)

\* C10 (amended): a reply of (header, data) pairs with a header of unknown
\* content, at whatever pair position, makes next() fail and return nothing;
\* the error is the unknown-content runtime_error when every pair before that
\* header is passed without error (the first failing pair decides the error).
C10_UnknownContentFails ==
    (NextEnded /\ EvenReply) =>
        \A j \in 1..Pairs :
            HasUnknownContent(Hdr(j)) =>
                /\ NextThrew
                /\ result = EmptyMap
                /\ (\A i \in 1..(j - 1) : WellFormedPair(i))
                       => err = "unknown_content"

C10_Witness ==
    /\ NextThrew
    /\ Pairs >= 2
    /\ EvenReply
    /\ HasUnknownContent(Hdr(2))
    /\ err = "unknown_content"

-----------------------------------------------------------------------------
(* Array::size and Array::as<T> *)

\* the C++ element types asked of as<T>(); char is none of the ten types
\* check_type_by_string knows
CTypes == {"uint64_t", "uint32_t", "uint16_t", "uint8_t", "int64_t",
           "int32_t", "int16_t", "int8_t", "float", "double", "char"}

\* sizeof(T)
Sizeof(t) ==
    CASE t \in {"uint64_t", "int64_t", "double"} -> 8
      [] t \in {"uint32_t", "int32_t", "float"} -> 4
      [] t \in {"uint16_t", "int16_t"} -> 2
      [] OTHER -> 1

\* check_type_by_string<T>(type_string)
check_type_by_string(t, type_string) ==
    \/ type_string = "uint64_t" /\ t = "uint64_t"
    \/ type_string = "uint32_t" /\ t = "uint32_t"
    \/ type_string = "uint16_t" /\ t = "uint16_t"
    \/ type_string = "uint8_t" /\ t = "uint8_t"
    \/ type_string = "int64_t" /\ t = "int64_t"
    \/ type_string = "int32_t" /\ t = "int32_t"
    \/ type_string = "int16_t" /\ t = "int16_t"
    \/ type_string = "int8_t" /\ t = "int8_t"
    \/ type_string = "float" /\ t = "float"
    \/ type_string = "double" /\ t = "double"

\* std::numeric_limits<unsigned long long>::max(): on the LP64 platforms the
\* client is built for, unsigned long long and std::size_t are both 64 bits
max_size == SizeTMax

\* what a call of size() or as<T>() did: it returned (value), threw
\* (overflow_error, bad_cast), or ran into undefined behaviour (fault: the
\* division by zero traps; overread: the copy reads past the frame).
\* n is the element count, wrapped tells that a multiplication wrapped.
Outcome(k, v, n, w) == [kind |-> k, value |-> v, n |-> n, wrapped |-> w]

RECURSIVE size_unchecked(_, _, _, _)
\* mutant of size_loop: the overflow test of line 110 is missing
size_unchecked(shape, k, size, w) ==
    IF k > Len(shape)
    THEN {Outcome("value", <<>>, size, w)}
    ELSE size_unchecked(shape, k + 1, (size * shape[k]) % (SizeTMax + 1),
                        w \/ size * shape[k] > SizeTMax)

RECURSIVE size_loop(_, _, _, _)
\* Array::size, lines 109-113, from the k-th dimension on with the running
\* product size.  max_size/size with size = 0 is undefined: the division may
\* trap, or yield any quotient q, and then the test q < v decides.
size_loop(shape, k, size, w) ==
    IF k > Len(shape)
    THEN {Outcome("value", <<>>, size, w)}
    ELSE LET v == shape[k]
         IN  IF size = 0
             THEN {Outcome("fault", <<>>, 0, w)}
                  \cup (IF v > 0 THEN {Outcome("overflow_error", <<>>, 0, w)}
                        ELSE {})
                  \cup size_loop(shape, k + 1, 0, w)
             ELSE IF max_size \div size < v
             THEN {Outcome("overflow_error", <<>>, 0, w)}
             ELSE size_loop(shape, k + 1, (size * v) % (SizeTMax + 1),
                            w \/ size * v > SizeTMax)

\* Array::size, lines 105-116
Array_size(a) == size_loop(a.shape_, 1, 1, FALSE)

\* std::vector<T>(ptr, ptr + n): the n elements of sizeof(T) bytes each that
\* start at ptr, each element the bytes of its object representation
CopyOut(bytes, n, sz) ==
    [e \in 1..n |-> SubSeq(bytes, (e - 1) * sz + 1, e * sz)]

\* Array::as<T>, lines 132-138
Array_as(a, t, bytes) ==
    IF ~check_type_by_string(t, a.dtype_)
    THEN {Outcome("bad_cast", <<>>, 0, FALSE)}
    ELSE { IF o.kind # "value" THEN o
           ELSE IF o.n * Sizeof(t) > Len(bytes)
           THEN Outcome("overread", <<>>, o.n, o.wrapped)
           ELSE Outcome("value", CopyOut(bytes, o.n, Sizeof(t)), o.n, o.wrapped)
           : o \in Array_size(a) }

-----------------------------------------------------------------------------
(* The Array scenario: an array header and its data frame arrive, next()   *)
(* builds the Array, the caller asks as<T>().                              *)

Shapes == UNION { [1..n -> 0..UIntMax] : n \in 0..MaxShapeLen }

\* dtype strings of array headers: numpy names, C names, and a name that
\* already carries the suffix
Dtypes == {"uint8", "uint16", "uint64", "int32", "float32", "float64",
           "float", "double", "uint16_t"}

\* bytes per element of a header dtype
DtypeSize(d) ==
    CASE d \in {"uint64", "float64", "double"} -> 8
      [] d \in {"int32", "float32", "float"} -> 4
      [] d \in {"uint16", "uint16_t"} -> 2
      [] OTHER -> 1

RECURSIVE Product(_)
Product(shape) ==
    IF shape = <<>> THEN 1 ELSE Head(shape) * Product(Tail(shape))

\* the data frame of a header: exactly Product(shape) elements; no frame
\* holds more than SizeTMax elements, such a header comes with an empty frame
FrameOf(h) ==
    IF Product(h.shape) > SizeTMax THEN <<>>
    ELSE [b \in 1..(Product(h.shape) * DtypeSize(h.dtype)) |-> b % 256]

InitArray ==
    /\ ClientIdle
    /\ VisitorIdle
    /\ \E sh \in Shapes, d \in Dtypes :
          ahdr = [source |-> "A", content |-> "array", path |-> "x",
                  shape |-> sh, dtype |-> d]
    /\ frame = FrameOf(ahdr)
    /\ arr = Array(0, <<>>, "")
    /\ apc = "header"
    /\ T = ""
    /\ aout = [kind |-> "none"]

\* next(), lines 461-472, on the pair (ahdr, frame) at the front of a reply
BuildArray ==
    /\ apc = "header"
    /\ arr' = ArrayPair(ahdr, EmptyMap, kb_data, "", FALSE, 0).kbdt.array[ahdr.path]
    /\ apc' = "built"
    /\ UNCHANGED << ahdr, frame, T, aout >>
    /\ UNCHANGED clientVars
    /\ UNCHANGED visitorVars

\* the caller's arr.as<T>()
CallAs ==
    /\ apc \in {"built", "done"}
    /\ \E t \in CTypes :
          /\ T' = t
          /\ aout' \in Array_as(arr, t, frame)
    /\ apc' = "done"
    /\ UNCHANGED << ahdr, arr, frame >>
    /\ UNCHANGED clientVars
    /\ UNCHANGED visitorVars

NextArray == BuildArray \/ CallAs

SpecArray == InitArray /\ [][NextArray]_vars

-----------------------------------------------------------------------------
(* C8 *)

\* the header dtype that names the C++ type T on the sending side
NumpyName(t) ==
    CASE t = "uint64_t" -> "uint64"
      [] t = "uint32_t" -> "uint32"
      [] t = "uint16_t" -> "uint16"
      [] t = "uint8_t" -> "uint8"
      [] t = "int64_t" -> "int64"
      [] t = "int32_t" -> "int32"
      [] t = "int16_t" -> "int16"
      [] t = "int8_t" -> "int8"
      [] t = "float" -> "float32"
      [] t = "double" -> "float64"
      [] OTHER -> "none"

RECURSIVE Flatten(_)
Flatten(ss) == IF ss = <<>> THEN <<>> ELSE Head(ss) \o Flatten(Tail(ss))

\* C8 (as claimed, for the integer dtypes, where the C++ type a dtype matches
\* is beyond doubt): with a data frame of exactly Product(shape) elements,
\* as<T>() with T matching the header's dtype returns Product(shape) elements
\* that are the frame's bytes in order; with any other T it fails with
\* bad_cast.
C8_AsReturnsElements ==
    (apc = "done" /\ ahdr.dtype \in {"uint8", "uint16", "uint64", "int32"}
        /\ Len(frame) = Product(ahdr.shape) * DtypeSize(ahdr.dtype)) =>
        IF ahdr.dtype = NumpyName(T)
        THEN /\ aout.kind = "value"
             /\ Len(aout.value) = Product(ahdr.shape)
             /\ Flatten(aout.value) = frame
        ELSE aout.kind = "bad_cast"

-----------------------------------------------------------------------------
(* C9 *)

\* size() has run: as<T>() passed its type check
SizeRan == apc = "done" /\ aout.kind # "bad_cast"

\* C9: a shape whose product exceeds the largest element count makes size(),
\* and so as<T>(), fail with overflow_error, and no multiplication of the
\* running product ever wraps.
C9_OverflowDetected ==
    SizeRan =>
        /\ ~aout.wrapped
        /\ Product(arr.shape_) > SizeTMax => aout.kind = "overflow_error"
        /\ aout.kind = "value" => aout.n = Product(arr.shape_)

C9_Witness ==
    /\ SizeRan
    /\ Product(arr.shape_) > SizeTMax
    /\ Len(arr.shape_) = MaxShapeLen
    /\ aout.kind = "overflow_error"


-----------------------------------------------------------------------------
(* C11 *)

\* a decoded header without the "source" or without the "content" entry
LacksField(f, k) == f.kind = "map" /\ k \notin DOMAIN f.obj

\* the data frame of pair j is processed without raising
DataProcessed(j) ==
    \/ HasContent(Hdr(j), {"msgpack"}) /\ Dat(j).kind = "map"
    \/ /\ HasContent(Hdr(j), {"array", "ImageData"})
       /\ {"shape", "dtype", "path"} \subseteq DOMAIN Hdr(j).obj

\* C11 (as claimed): a header that lacks "source" or "content" makes next()
\* fail with the missing-field error (the out_of_range of map::at) and return
\* no dataset, whatever the header's content and whether or not its data frame
\* was processed.
C11_MissingField ==
    (NextEnded /\ EvenReply
        /\ \E j \in 1..Pairs :
               LacksField(Hdr(j), "source") \/ LacksField(Hdr(j), "content"))
        => (NextThrew /\ err = "out_of_range" /\ result = EmptyMap)

\* C11 (amended): a reply of (header, data) pairs with a header that lacks
\* "source" or "content" makes next() fail and return no dataset; the failure
\* is the out_of_range of map::at when every pair before that header is
\* passed without error and the header lacks "content", or lacks "source"
\* while its content is known and its data frame is processed without error.
C11_MissingFieldFails ==
    (NextEnded /\ EvenReply) =>
        \A j \in 1..Pairs :
            (LacksField(Hdr(j), "source") \/ LacksField(Hdr(j), "content")) =>
                /\ NextThrew
                /\ result = EmptyMap
                /\ ( /\ \A i \in 1..(j - 1) : WellFormedPair(i)
                     /\ \/ LacksField(Hdr(j), "content")
                        \/ DataProcessed(j) )
                       => err = "out_of_range"

\* next() failed on the missing "source" of the second header, after the data
\* frame of that header was decoded and the pair before it was grouped
C11_Witness ==
    /\ NextThrew
    /\ EvenReply
    /\ Pairs >= 2
    /\ WellFormedPair(1)
    /\ HasContent(Hdr(1), {"msgpack"})
    /\ LacksField(Hdr(2), "source")
    /\ HasContent(Hdr(2), {"msgpack"})
    /\ Dat(2).kind = "map"
    /\ err = "out_of_range"
    /\ result = EmptyMap


-----------------------------------------------------------------------------
(* C12 *)

\* the reply carries nothing: it has no frame, or the one frame the socket
\* delivers for it has no bytes
CarriesNothing ==
    /\ Len(reply) <= 1
    /\ \A i \in 1..Len(reply) : reply[i] = RawFrame(<<>>)

-----------------------------------------------------------------------------
(* C14 *)

\* C14: in every kb_data returned by next() every borrow is backed by storage
\* retained in that kb_data: the data pointer of each Array refers to a frame
\* of its mpmsg_, and the handle the Objects live in is the handle_ it holds.
C14_BorrowsBacked ==
    NextReturned =>
        \A s \in DOMAIN result :
            LET kb == result[s]
            IN  /\ \A p \in DOMAIN kb.array :
                       data_after_move(kb, kb.array[p].ptr_,
                                       reply[kb.array[p].ptr_]).holder
                           = "kb_data"
                /\ \A k \in DOMAIN kb.msgpack_data :
                       /\ kb.handle_ # 0
                       /\ kb.msgpack_data[k].handle = kb.handle_


-----------------------------------------------------------------------------
(* C15 *)

\* the states of the walk: the odd reply is refused with nothing decoded; in
\* the loop the iterator stands on a header (an even 0-based position), the
\* header and its data frame are both before the end, and what was kept
\* points at data frames (odd 0-based positions)
WalkInvariant ==
    /\ (pc = "unwind" /\ err = "pairs_expected") =>
           /\ Len(mpmsg) % 2 = 1
           /\ it = 0
           /\ kbdt = kb_data
           /\ data_pkg = EmptyMap
    /\ (NextEnded /\ Len(reply) % 2 = 1) =>
           (NextThrew /\ err = "pairs_expected" /\ result = EmptyMap)
    /\ pc = "loop" =>
           /\ Len(mpmsg) % 2 = 0
           /\ it % 2 = 0
           /\ it <= Len(mpmsg)
           /\ it < Len(mpmsg) => it + 2 <= Len(mpmsg)
           /\ kbdt.handle_ % 2 = 0
           /\ \A p \in DOMAIN kbdt.array : kbdt.array[p].ptr_ % 2 = 0
    /\ (NextReturned /\ op = "next") =>
           (Len(reply) % 2 = 0 /\ err = "none")

\* the steps of the walk: an iteration that raises nothing passes exactly two
\* frames, the header at it and its data at it + 1 (0-based); the loop is
\* left by the return only when the iterator is at the end
WalkStep ==
    /\ (pc = "loop" /\ pc' = "loop") =>
           (it' = it + 2 /\ mpmsg' = mpmsg /\ CurrentHeader.kind = "map")
    /\ (pc = "loop" /\ pc' = "unwind") => it' \in {it, it + 1}
    /\ (pc = "loop" /\ pc' \in {"idle", "format"}) =>
           (it = Len(mpmsg) /\ err = "none")

\* C15: next() rejects every reply with an odd number of frames before it
\* decodes a frame; on a reply of 2k frames that raises no error the loop
\* runs k iterations of two frames each (header at 0, 2, 4, ..., data at
\* 1, 3, 5, ...), never reads a frame at or past the end, and ends: each
\* iteration moves the iterator two frames towards the end.
C15_PairwiseWalk == []WalkInvariant /\ [][WalkStep]_vars

\* the loop has run twice on a reply of four frames and is at its end
C15_Witness ==
    /\ pc = "loop"
    /\ Len(mpmsg) = 4
    /\ it = 4
    /\ err = "none"


-----------------------------------------------------------------------------
(* C16 *)

\* the dtype ends with the native suffix
HasSuffix(d) == Len(d) >= 2 /\ SubSeq(d, Len(d) - 1, Len(d)) = "_t"

\* C16: the suffix is appended to a dtype containing "int" only when the
\* dtype lacks it, so a dtype that carries it is stored unchanged,
\* normalizing the stored dtype again changes nothing, and some as<T>()
\* matches the stored dtype of an integer array.
C16_SuffixOnlyWhenLacking ==
    (apc \in {"built", "done"} /\ Find(ahdr.dtype, "int")) =>
        /\ arr.dtype_ = IF HasSuffix(ahdr.dtype) THEN ahdr.dtype
                        ELSE ahdr.dtype \o "_t"
        /\ NormalizeDtype(arr.dtype_) = arr.dtype_
        /\ \E t \in CTypes : check_type_by_string(t, arr.dtype_)

-----------------------------------------------------------------------------
(* C17 *)

\* C17: for every shape whose product is representable, shapes with a zero
\* dimension at any position and the empty shape included, size() returns the
\* product of the dimensions and the overflow check does not fault.
C17_SizeIsProduct ==
    (SizeRan /\ Product(arr.shape_) <= SizeTMax) =>
        (aout.kind = "value" /\ aout.n = Product(arr.shape_))


-----------------------------------------------------------------------------
(* karabo_visitor: the callbacks.  Each appends to (or erases from) m_s and *)
(* may change tracker_, level_ and is_key_.  The float callbacks append the *)
(* stream text of the number the way the integer callbacks do.              *)

Digit(d) == SubSeq("0123456789", d + 1, d + 1)

\* std::stringstream << v for a non-negative integer
RECURSIVE ToDecimal(_)
ToDecimal(v) ==
    IF v < 10 THEN Digit(v) ELSE ToDecimal(v \div 10) \o Digit(v % 10)

\* n times the four spaces of line 249
RECURSIVE Indent(_)
Indent(n) == IF n = 0 THEN "" ELSE "    " \o Indent(n - 1)

\* m_s += s in the callback cb, nothing else
Emit(cb, s) ==
    /\ m_s' = m_s \o s
    /\ visited' = cb
    /\ UNCHANGED << tracker_, level_, is_key_ >>

visit_nil == Emit("visit_nil", "null")

visit_boolean(v) == Emit("visit_boolean", IF v THEN "true" ELSE "false")

visit_positive_integer(v) == Emit("visit_positive_integer", ToDecimal(v))

visit_negative_integer(v) ==
    Emit("visit_negative_integer", "-" \o ToDecimal(0 - v))

visit_str(v) == Emit("visit_str", "\"" \o v \o "\"")

visit_bin(v) == Emit("visit_bin", IF is_key_ THEN v ELSE "(bin)")

visit_ext == Emit("visit_ext", "")

start_array == Emit("start_array", "[")

end_array_item == Emit("end_array_item", ",")

\* m_s.erase(m_s.size() - 1, 1) is defined on a non-empty string only: on the
\* empty one the position is the largest size_t and erase throws out_of_range
CanErase == Len(m_s) >= 1

erase == SubSeq(m_s, 1, Len(m_s) - 1)

end_array ==
    /\ m_s' = erase \o "]"
    /\ visited' = "end_array"
    /\ UNCHANGED << tracker_, level_, is_key_ >>

\* mutant of start_map: the level is pushed after the increment
start_map_preincrement ==
    /\ tracker_' = Append(tracker_, level_ + 1)
    /\ level_' = (level_ + 1) % 65536
    /\ visited' = "start_map"
    /\ UNCHANGED << m_s, is_key_ >>

\* tracker_.push(level_++)
start_map ==
    /\ tracker_' = Append(tracker_, level_)
    /\ level_' = (level_ + 1) % 65536
    /\ visited' = "start_map"
    /\ UNCHANGED << m_s, is_key_ >>

start_map_key ==
    /\ is_key_' = TRUE
    /\ m_s' = m_s \o "\n" \o Indent(tracker_[Len(tracker_)])
    /\ visited' = "start_map_key"
    /\ UNCHANGED << tracker_, level_ >>

end_map_key ==
    /\ m_s' = m_s \o ": "
    /\ is_key_' = FALSE
    /\ visited' = "end_map_key"
    /\ UNCHANGED << tracker_, level_ >>

end_map_value == Emit("end_map_value", ",")

end_map ==
    /\ m_s' = erase
    /\ tracker_' = SubSeq(tracker_, 1, Len(tracker_) - 1)
    /\ level_' = (level_ - 1) % 65536
    /\ visited' = "end_map"
    /\ UNCHANGED is_key_

\* an exception leaves the callback cb: parseMsg is unwound, the visitor and
\* data_str are destroyed
Throw(cb) ==
    /\ m_s' = ""
    /\ tracker_' = <<>>
    /\ level_' = 0
    /\ is_key_' = FALSE
    /\ visited' = cb

-----------------------------------------------------------------------------
(* parseMsg: msgpack::parse on a well-formed message.  The parser reads a  *)
(* value header, calls the visitor, and keeps on m_stack one entry per open *)
(* container: what its next child is (ARRAY_ITEM, MAP_KEY, MAP_VALUE), its  *)
(* size, and how many items or entries are still to be completed.           *)

Top == m_stack[Len(m_stack)]

Push(t, size) ==
    Append(m_stack, [type |-> t, size |-> size, rest |-> size])

Pop == SubSeq(m_stack, 1, Len(m_stack) - 1)

\* parseMsg, lines 335-340: data_str, the visitor, the parser before the
\* first byte
ParseMsg ==
    /\ ppc \in {"off", "done", "threw"}
    /\ m_s' = ""
    /\ tracker_' = <<>>
    /\ level_' = 0
    /\ is_key_' = FALSE
    /\ m_stack' = <<>>
    /\ ppc' = "value"
    /\ nodes' = 1
    /\ visited' = "none"
    /\ UNCHANGED clientVars
    /\ UNCHANGED arrayVars

\* the parser reads a scalar and calls its callback
Scalar(callback) ==
    /\ ppc = "value"
    /\ callback
    /\ ppc' = "consume"
    /\ UNCHANGED << m_stack, nodes >>
    /\ UNCHANGED clientVars
    /\ UNCHANGED arrayVars

VisitNil == Scalar(visit_nil)

VisitBoolean == \E v \in BOOLEAN : Scalar(visit_boolean(v))

VisitPositiveInteger == \E v \in {12} : Scalar(visit_positive_integer(v))

VisitNegativeInteger == \E v \in {-3} : Scalar(visit_negative_integer(v))

VisitStr == \E v \in {"s"} : Scalar(visit_str(v))

VisitBin == \E v \in {"b"} : Scalar(visit_bin(v))

VisitExt == Scalar(visit_ext)

\* an array header of `size` items: start_array, then start_array_item for
\* the first item, or end_array at once when there is none
StartArray ==
    /\ ppc = "value"
    /\ \E size \in 0..(MaxNodes - nodes) :
          /\ m_stack' = Push("ARRAY_ITEM", size)
          /\ nodes' = nodes + size
          /\ ppc' = IF size = 0 THEN "end" ELSE "value"
    /\ start_array
    /\ UNCHANGED clientVars
    /\ UNCHANGED arrayVars

\* a map header of `size` entries: start_map, then start_map_key for the
\* first entry, or end_map at once when there is none
StartMap ==
    /\ ppc = "value"
    /\ \E size \in 0..((MaxNodes - nodes) \div 2) :
          /\ m_stack' = Push("MAP_KEY", size)
          /\ nodes' = nodes + 2 * size
          /\ ppc' = IF size = 0 THEN "end" ELSE "key"
    /\ start_map
    /\ UNCHANGED clientVars
    /\ UNCHANGED arrayVars

StartMapKey ==
    /\ ppc = "key"
    /\ start_map_key
    /\ ppc' = "value"
    /\ UNCHANGED << m_stack, nodes >>
    /\ UNCHANGED clientVars
    /\ UNCHANGED arrayVars

\* an item of the innermost array is complete
EndArrayItem ==
    /\ ppc = "consume"
    /\ m_stack # <<>>
    /\ Top.type = "ARRAY_ITEM"
    /\ end_array_item
    /\ m_stack' = [m_stack EXCEPT ![Len(m_stack)].rest = @ - 1]
    /\ ppc' = IF Top.rest = 1 THEN "end" ELSE "value"
    /\ UNCHANGED nodes
    /\ UNCHANGED clientVars
    /\ UNCHANGED arrayVars

\* a key of the innermost map is complete: end_map_key, start_map_value
EndMapKey ==
    /\ ppc = "consume"
    /\ m_stack # <<>>
    /\ Top.type = "MAP_KEY"
    /\ end_map_key
    /\ m_stack' = [m_stack EXCEPT ![Len(m_stack)].type = "MAP_VALUE"]
    /\ ppc' = "value"
    /\ UNCHANGED nodes
    /\ UNCHANGED clientVars
    /\ UNCHANGED arrayVars

\* a value of the innermost map is complete
EndMapValue ==
    /\ ppc = "consume"
    /\ m_stack # <<>>
    /\ Top.type = "MAP_VALUE"
    /\ end_map_value
    /\ m_stack' = [m_stack EXCEPT ![Len(m_stack)].rest = @ - 1,
                                  ![Len(m_stack)].type = "MAP_KEY"]
    /\ ppc' = IF Top.rest = 1 THEN "end" ELSE "key"
    /\ UNCHANGED nodes
    /\ UNCHANGED clientVars
    /\ UNCHANGED arrayVars

\* the innermost array has no item left
EndArray ==
    /\ ppc = "end"
    /\ Top.type = "ARRAY_ITEM"
    /\ IF CanErase
       THEN end_array /\ m_stack' = Pop /\ ppc' = "consume"
       ELSE Throw("end_array") /\ m_stack' = <<>> /\ ppc' = "threw"
    /\ UNCHANGED nodes
    /\ UNCHANGED clientVars
    /\ UNCHANGED arrayVars

\* the innermost map has no entry left
EndMap ==
    /\ ppc = "end"
    /\ Top.type = "MAP_KEY"
    /\ IF CanErase
       THEN end_map /\ m_stack' = Pop /\ ppc' = "consume"
       ELSE Throw("end_map") /\ m_stack' = <<>> /\ ppc' = "threw"
    /\ UNCHANGED nodes
    /\ UNCHANGED clientVars
    /\ UNCHANGED arrayVars

\* the value is complete: parse returns, ~karabo_visitor appends the newline,
\* parseMsg returns data_str
Finish ==
    /\ ppc = "consume"
    /\ m_stack = <<>>
    /\ m_s' = m_s \o "\n"
    /\ visited' = "~karabo_visitor"
    /\ ppc' = "done"
    /\ UNCHANGED << tracker_, level_, is_key_, m_stack, nodes >>
    /\ UNCHANGED clientVars
    /\ UNCHANGED arrayVars

InitVisitor == VisitorIdle /\ ClientIdle /\ ArrayIdle

NextVisitor ==
    \/ ParseMsg
    \/ VisitNil
    \/ VisitBoolean
    \/ VisitPositiveInteger
    \/ VisitNegativeInteger
    \/ VisitStr
    \/ VisitBin
    \/ VisitExt
    \/ StartArray
    \/ StartMap
    \/ StartMapKey
    \/ EndArrayItem
    \/ EndMapKey
    \/ EndMapValue
    \/ EndArray
    \/ EndMap
    \/ Finish

SpecVisitor == InitVisitor /\ [][NextVisitor]_vars


-----------------------------------------------------------------------------
(* Vocabulary of the visitor properties *)

\* occurrences of the character c in s
Count(s, c) == Cardinality({ i \in 1..Len(s) : SubSeq(s, i, i) = c })

\* the open maps, the innermost included
OpenMaps ==
    Cardinality({ i \in 1..Len(m_stack) : m_stack[i].type # "ARRAY_ITEM" })

\* the value the parser is about to read is a key of the innermost container
InKeyPosition == m_stack # <<>> /\ Top.type = "MAP_KEY"

-----------------------------------------------------------------------------
(* C13 *)

\* C13: the rendering parseMsg returns has balanced brackets, values with
\* empty arrays or empty maps included: as many ']' as '[', and no ']' before
\* its '['.
C13_BalancedBrackets ==
    ppc = "done" =>
        /\ Count(m_s, "[") = Count(m_s, "]")
        /\ \A n \in 1..Len(m_s) :
               Count(SubSeq(m_s, 1, n), "]") <= Count(SubSeq(m_s, 1, n), "[")

-----------------------------------------------------------------------------
(* C18 *)

\* C18: the character end_array or end_map removes is a ',' that an item or
\* entry of the container being closed has emitted; closing an empty array or
\* an empty map removes nothing and does not fail.
C18_RemovesOwnComma ==
    [][ ppc = "end" =>
            /\ ppc' # "threw"
            /\ IF Top.size > 0
               THEN Len(m_s) >= 1 /\ SubSeq(m_s, Len(m_s), Len(m_s)) = ","
               ELSE m_s' = m_s \o (IF Top.type = "ARRAY_ITEM" THEN "]" ELSE "")
      ]_vars

-----------------------------------------------------------------------------
(* C19 *)

\* the level stack mirrors the open maps: entry i is the depth i - 1, the
\* counter is the number of entries, and both are back at nothing when the
\* value is complete
DepthInvariant ==
    /\ tracker_ = [i \in 1..OpenMaps |-> i - 1]
    /\ level_ = Len(tracker_)
    /\ ppc = "done" => (tracker_ = <<>> /\ level_ = 0)

\* start_map_key appends a newline and four spaces per depth of the map
KeyStep ==
    (ppc = "key" /\ visited' = "start_map_key") =>
        /\ Len(m_s') = Len(m_s) + 1 + 4 * (OpenMaps - 1)
        /\ SubSeq(m_s', 1, Len(m_s)) = m_s
        /\ SubSeq(m_s', Len(m_s) + 1, Len(m_s) + 1) = "\n"
        /\ \A i \in (Len(m_s) + 2)..Len(m_s') : SubSeq(m_s', i, i) = " "

\* C19: every key of a map at depth d (outermost 0) is written after a
\* newline and exactly 4*d spaces; tracker_ has as many entries as level_
\* counts, its top is the depth of the innermost open map, and after the
\* whole value both are empty / 0.
C19_KeyIndentation == []DepthInvariant /\ [][KeyStep]_vars

\* the key of a map inside a map has just been started
C19_Witness ==
    /\ ppc = "value"
    /\ visited = "start_map_key"
    /\ OpenMaps = 2
    /\ tracker_ = <<0, 1>>
    /\ Len(m_s) >= 5
    /\ SubSeq(m_s, Len(m_s) - 4, Len(m_s)) = "\n    "

-----------------------------------------------------------------------------
(* C20 *)

\* C20: a binary blob is rendered as its raw text exactly when it is a map
\* key, and as "(bin)" as a map value, an array item or the top-level value.
C20_BinRawOnlyAsKey ==
    [][ (ppc = "value" /\ visited' = "visit_bin") =>
            \/ InKeyPosition /\ m_s' = m_s \o "b"
            \/ ~InKeyPosition /\ m_s' = m_s \o "(bin)"
      ]_vars

=============================================================================
